---------------------------- MODULE Spec2Model ----------------------------
(***************************************************************************)
(* Model of netlify/functions/transcribe.js: the transcription request     *)
(* handler (exports.handler) and its helper translateToBengali.            *)
(*                                                                         *)
(* One behaviour is one invocation of the handler.  The handler is an      *)
(* async function: it runs synchronously up to an await, and is resumed    *)
(* when the awaited promise settles.  Each action below is one such run:   *)
(* the synchronous prefix (Invoke) and one continuation per await.  The    *)
(* two external services are the environment: when a promise settles the   *)
(* action draws what the service did from a small set.                     *)
(*                                                                         *)
(* Strings whose characters matter (the transcribed and translated text)   *)
(* are sequences of UTF-16 code units; other strings are TLA+ strings.     *)
(***************************************************************************)
EXTENDS Integers, Sequences, FiniteSets, TLC

VARIABLES
    event,               \* the request: httpMethod, headers, body
    env,                 \* process.env
    pc,                  \* where the handler is suspended
    response,            \* the value the handler returned (NoResponse before)
    returned,            \* how many times the handler has returned
    raised,              \* every exception thrown so far: <<[site, message]>>
    wire,                \* everything exchanged with the two services
    pending,             \* the promises the handler has issued and not seen settle
    openaiResponse,      \* local: the transcription service's response (status)
    transcriptionResult, \* local: the parsed transcription body
    originalText,        \* local
    bengaliText          \* local

vars == <<event, env, pc, response, returned, raised, wire, pending,
          openaiResponse, transcriptionResult, originalText, bengaliText>>

---------------------------------------------------------------------------
(* Bounds of the model *)

\* longest transcribed text the transcription service returns
MaxTextLen == 2

---------------------------------------------------------------------------
(* JavaScript values, as far as the handler looks at them *)

Undefined == [t |-> "undefined"]
JNull == [t |-> "null"]
JBool(b) == [t |-> "boolean", b |-> b]
JNum(n) == [t |-> "number", n |-> n]
JStr(s) == [t |-> "string", s |-> s]
JArr(a) == [t |-> "array", a |-> a]
JObj(f) == [t |-> "object", f |-> f]

\* ToBoolean
Truthy(v) ==
    CASE v.t = "undefined" -> FALSE
      [] v.t = "null" -> FALSE
      [] v.t = "boolean" -> v.b
      [] v.t = "number" -> v.n # 0
      [] v.t = "string" -> v.s # <<>>
      [] OTHER -> TRUE

\* v.k and v[k] throw a TypeError on null and undefined
PropertyThrows(v) == v.t \in {"undefined", "null"}

\* v.k for a value that is not null or undefined
Get(v, k) ==
    IF v.t = "object" /\ k \in DOMAIN v.f THEN v.f[k] ELSE Undefined

\* v[0]: the first element of an array, the first code unit of a string
Index0(v) ==
    CASE v.t = "array" /\ Len(v.a) >= 1 -> v.a[1]
      [] v.t = "string" /\ Len(v.s) >= 1 -> JStr(<<v.s[1]>>)
      [] v.t = "object" -> Get(v, "0")
      [] OTHER -> Undefined

\* a || b
OrElse(a, b) == IF Truthy(a) THEN a ELSE b

---------------------------------------------------------------------------
(* Strings *)

\* String.prototype.includes on TLA+ strings
Includes(s, sub) ==
    \E i \in 1..(Len(s) - Len(sub) + 1) : SubSeq(s, i, i + Len(sub) - 1) = sub

\* WhiteSpace and LineTerminator code units, which String.prototype.trim strips
IsWhiteSpace(c) ==
    \/ c \in {9, 10, 11, 12, 13, 32, 160, 5760, 8232, 8233, 8239, 8287, 12288, 65279}
    \/ c \in 8192..8202

RECURSIVE TrimStart(_)
TrimStart(s) ==
    IF s # <<>> /\ IsWhiteSpace(Head(s)) THEN TrimStart(Tail(s)) ELSE s

RECURSIVE TrimEnd(_)
TrimEnd(s) ==
    IF s # <<>> /\ IsWhiteSpace(s[Len(s)])
    THEN TrimEnd(SubSeq(s, 1, Len(s) - 1))
    ELSE s

\* String.prototype.trim
Trim(s) == TrimEnd(TrimStart(s))

\* a code unit in the class [\u0980-\u09FF] (2432..2559)
\* (variant: the class without its first code unit)
InBengaliBlockLow(c) == 2433 <= c /\ c <= 2559
InBengaliBlock(c) == 2432 <= c /\ c <= 2559

\* /[\u0980-\u09FF]/.test(s)
IsBengali(s) == \E i \in 1..Len(s) : InBengaliBlock(s[i])

\* encodeURIComponent throws a URIError on a lone surrogate
IsHighSurrogate(c) == 55296 <= c /\ c <= 56319
IsLowSurrogate(c) == 56320 <= c /\ c <= 57343
EncodeThrows(s) ==
    \E i \in 1..Len(s) :
        \/ IsLowSurrogate(s[i]) /\ (i = 1 \/ ~IsHighSurrogate(s[i - 1]))
        \/ IsHighSurrogate(s[i]) /\ (i = Len(s) \/ ~IsLowSurrogate(s[i + 1]))

---------------------------------------------------------------------------
(* The request body and its size *)

\* 25 * 1024 * 1024, the size ceiling
MaxBytes == 25 * 1024 * 1024

\* 1024 * 1024, the divisor of the reported size
MiB == 1024 * 1024

\* Buffer.from(s, 'base64').length for a string with n base64 characters:
\* every 4 characters give 3 bytes, 3 give 2, 2 give 1 and a single one none
ByteLength(n) == (3 * n) \div 4

\* Math.round(a / b) for a >= 0, b > 0: halves round up
MathRound(a, b) == (2 * a + b) \div (2 * b)

\* `${Math.round(body.length / (1024 * 1024))}MB`
FileSize(len) == ToString(MathRound(len, MiB)) \o "MB"

\* body.length > 25 * 1024 * 1024
\* (variant: >=)
TooLargeInclusive(len) == len >= MaxBytes
TooLarge(len) == len > MaxBytes

---------------------------------------------------------------------------
(* Header and environment values: a string, or undefined *)

NoString == [defined |-> FALSE, v |-> ""]
SomeString(s) == [defined |-> TRUE, v |-> s]

\* obj[k] for an object of strings
Lookup(obj, k) == IF k \in DOMAIN obj THEN SomeString(obj[k]) ELSE NoString

\* ToBoolean of a string or undefined
TruthyString(x) == x.defined /\ x.v # ""

\* process.env.OPENAI_API_KEY
OPENAI_API_KEY(en) == Lookup(en, "OPENAI_API_KEY")

\* event.headers['content-type'] || event.headers['Content-Type']
ContentType(ev) ==
    IF TruthyString(Lookup(ev.headers, "content-type"))
    THEN Lookup(ev.headers, "content-type")
    ELSE Lookup(ev.headers, "Content-Type")

\* contentType.includes('multipart/form-data')
IsMultipart(ct) == Includes(ct.v, "multipart/form-data")

---------------------------------------------------------------------------
(* The inputs of one invocation *)

Methods == {"OPTIONS", "POST", "GET", "PUT"}

Environments ==
    { <<>>,
      [OPENAI_API_KEY |-> ""],
      [OPENAI_API_KEY |-> "sk-test"] }

LowerValues == {"", "text/plain", "multipart/form-data; boundary=x"}
UpperValues == {"multipart/form-data", "Multipart/Form-Data"}

HeaderSets ==
    { <<>> }
    \cup { [h \in {"content-type"} |-> l] : l \in LowerValues }
    \cup { [h \in {"Content-Type"} |-> u] : u \in UpperValues }
    \cup { [h \in {"content-type", "Content-Type"} |->
               IF h = "content-type" THEN l ELSE u] :
           l \in LowerValues, u \in UpperValues }

\* the number of base64 characters of the smallest string that decodes to
\* len bytes
B64For(len) == (4 * len + 2) \div 3

\* the decoded sizes the uploads have: around the ceiling, and around the
\* point where the reported size rounds up
UploadSizes ==
    { 6, MaxBytes, MaxBytes + 1,
      MaxBytes + (MiB \div 2) - 1, MaxBytes + (MiB \div 2),
      MaxBytes + 3 * (MiB \div 4), 26 * MiB }

\* what JSON.parse(event.body) does: a SyntaxError, or a value
ParseFails == [ok |-> FALSE, value |-> Undefined]
Parsed(v) == [ok |-> TRUE, value |-> v]

BodyParses ==
    { ParseFails,
      Parsed(JObj([test |-> JBool(TRUE)])),
      Parsed(JObj([test |-> JNum(1)])) }

\* event.body: null, the empty string, or a string seen through what
\* JSON.parse makes of it and how many base64 characters it holds
NullBody == [present |-> FALSE, empty |-> TRUE, json |-> ParseFails, b64 |-> 0]
EmptyString == [present |-> TRUE, empty |-> TRUE, json |-> ParseFails, b64 |-> 0]

Bodies ==
    { NullBody, EmptyString,
      \* the string "null": JSON null, four base64 characters
      [present |-> TRUE, empty |-> FALSE, json |-> Parsed(JNull), b64 |-> 4] }
    \cup { [present |-> TRUE, empty |-> FALSE, json |-> j, b64 |-> B64For(n)] :
           j \in BodyParses, n \in UploadSizes }

Events == [httpMethod : Methods, headers : HeaderSets, body : Bodies]

\* the values Date.now() returns, in abstract ticks
Clock == {1, 2}

---------------------------------------------------------------------------
(* The responses *)

NoResponse == [statusCode |-> 0]

\* the CORS headers every response carries
headers ==
    ("Access-Control-Allow-Origin" :> "*")
    @@ ("Access-Control-Allow-Headers" :> "Content-Type, Authorization")
    @@ ("Access-Control-Allow-Methods" :> "POST, OPTIONS")
    @@ ("Content-Type" :> "application/json")

\* the body of the pre-flight response is the empty string, not JSON
EmptyBody == <<>>

Preflight == [statusCode |-> 200, headers |-> headers, body |-> EmptyBody]

MethodNotAllowed ==
    [ statusCode |-> 405, headers |-> headers,
      body |-> [error |-> "Method not allowed. Use POST."] ]

KeyNotConfigured ==
    [ statusCode |-> 500, headers |-> headers,
      body |-> [ error |-> "OpenAI API key not configured",
                 setup |-> "Add OPENAI_API_KEY to Netlify environment variables",
                 help |-> "Go to Site Settings > Environment Variables in Netlify dashboard" ] ]

Probe(key, now) ==
    [ statusCode |-> 200, headers |-> headers,
      body |-> [ success |-> TRUE,
                 message |-> "API connected successfully",
                 timestamp |-> now,
                 apiKeyPresent |-> TruthyString(key) ] ]

BadContentType(ct) ==
    [ statusCode |-> 400, headers |-> headers,
      body |-> [ error |-> "Content-Type must be multipart/form-data for audio uploads",
                 received |-> IF TruthyString(ct) THEN ct.v ELSE "none" ] ]

PayloadTooLarge(len) ==
    [ statusCode |-> 400, headers |-> headers,
      body |-> [ error |-> "Audio file too large. Maximum size is 25MB.",
                 fileSize |-> FileSize(len) ] ]

\* lines 127-135
\* (variant: no status is told apart)
ErrorMessageGeneric(status) == "OpenAI API request failed"
ErrorMessage(status) ==
    CASE status = 401 -> "Invalid OpenAI API key. Please check your key."
      [] status = 429 -> "OpenAI API rate limit exceeded. Please try again later."
      [] status = 413 -> "Audio file too large for OpenAI API."
      [] OTHER -> "OpenAI API request failed"

UpstreamError(status, errorText) ==
    [ statusCode |-> status, headers |-> headers,
      body |-> [ error |-> ErrorMessage(status),
                 details |-> errorText,
                 status |-> status ] ]

Success(original, bengali, result, now) ==
    [ statusCode |-> 200, headers |-> headers,
      body |-> [ success |-> TRUE,
                 original |-> original,
                 bengali |-> bengali,
                 language_detected |-> OrElse(Get(result, "language"), JStr(<<117, 110, 107, 110, 111, 119, 110>>)),
                 confidence |-> "0.95",  \* the number 0.95
                 timestamp |-> now,
                 model |-> "whisper-1",
                 duration |-> OrElse(Get(result, "duration"), JNull) ] ]

InternalError(message, now) ==
    [ statusCode |-> 500, headers |-> headers,
      body |-> [ error |-> "Internal server error during transcription",
                 message |-> message,
                 timestamp |-> now ] ]

---------------------------------------------------------------------------
(* What the two services may do *)

\* the messages of the errors a fetch rejects with
FetchErrors == {"socket hang up", "getaddrinfo ENOTFOUND"}

\* the message of the error a body read rejects with
BodyErrors == {"Premature close"}

\* the message of the error response.json() rejects with on a malformed body
JsonErrors == {"invalid json response body: Unexpected token < in JSON at position 0"}

\* the statuses the transcription service answers with
UpstreamStatuses == {200, 201, 304, 400, 401, 413, 429, 500, 503}

\* the statuses the translation service answers with
TranslateStatuses == {200, 403, 429, 500}

\* response.ok
Ok(status) == 200 <= status /\ status <= 299

\* the raw bodies of the transcription service's error answers
ErrorBodies == {"", "{\"error\":{\"message\":\"upstream\"}}"}

\* the code units of the transcribed texts: space, H, the code units on both
\* sides of each end of the Bengali block, and a lone surrogate
TextAlphabet == {32, 72, 2431, 2432, 2559, 2560, 55296}

SeqsUpTo(S, n) == UNION { [1..k -> S] : k \in 0..n }

Texts == SeqsUpTo(TextAlphabet, MaxTextLen)

\* "bn"
LanguageTag == <<98, 110>>

\* the values response.json() of the transcription service resolves to
TranscriptionResults ==
    { JNull, JNum(7), JObj(<<>>),
      JObj([text |-> JNull]), JObj([text |-> JNum(0)]), JObj([text |-> JNum(5)]),
      JObj([text |-> JBool(TRUE)]) }
    \cup { JObj([text |-> JStr(s)]) : s \in Texts }
    \cup { JObj([text |-> JStr(s), language |-> JStr(LanguageTag), duration |-> JNum(3)]) :
           s \in SeqsUpTo(TextAlphabet, 1) }

\* the translated segments: empty, Bengali, not Bengali
Segments == { <<>>, <<2453>>, <<72, 105>> }

\* [[[segment, source, null]], null, "bn"], the shape the translation service
\* documents
Translated(segment, source) ==
    JArr(<< JArr(<< JArr(<< JStr(segment), JStr(source), JNull >>) >>),
            JNull, JStr(LanguageTag) >>)

\* the values response.json() of the translation service resolves to
TranslateData(source) ==
    { JNull, JNum(5), JStr(<<72, 105>>), JObj(<<>>),
      JArr(<<>>), JArr(<<JNull>>), JArr(<<JArr(<<>>)>>),
      JArr(<<JArr(<<JNull>>)>>), JArr(<<JArr(<<JArr(<<>>)>>)>>),
      JArr(<<JArr(<<JArr(<<JNull>>)>>)>>), JArr(<<JArr(<<JArr(<<JNum(5)>>)>>)>>) }
    \cup { Translated(g, source) : g \in Segments }

---------------------------------------------------------------------------
(* The wire: what the handler sent and what came back *)

TranscriptionRequest(key, len) ==
    [ svc |-> "transcription", ev |-> "request",
      authorization |-> "Bearer " \o key, bytes |-> len,
      model |-> "whisper-1", language |-> "bn",
      response_format |-> "json", temperature |-> "0" ]

\* q is the text the service decodes from the URL-encoded parameter
TranslationRequest(text) ==
    [ svc |-> "translation", ev |-> "request", q |-> text, tl |-> "bn" ]

Rejected(svc, message) == [svc |-> svc, ev |-> "rejected", message |-> message]
Status(svc, status) == [svc |-> svc, ev |-> "status", status |-> status]
BodyText(svc, text) == [svc |-> svc, ev |-> "text", text |-> text]
BodyJson(svc, value) == [svc |-> svc, ev |-> "json", value |-> value]
BodyFailed(svc, message) == [svc |-> svc, ev |-> "failed", message |-> message]

Exception(site, message) == [site |-> site, message |-> message]

---------------------------------------------------------------------------
(* The synchronous prefix of the handler, lines 7-121 *)

\* if (event.body): null and the empty string are falsy
BodyTruthy(body) == body.present /\ ~body.empty

\* lines 51-69: the body is a JSON value whose test property is true
\* (variant: a truthy test property)
IsProbeTruthy(body) ==
    /\ BodyTruthy(body)
    /\ body.json.ok
    /\ ~PropertyThrows(body.json.value)
    /\ Truthy(Get(body.json.value, "test"))
IsProbe(body) ==
    /\ BodyTruthy(body)
    /\ body.json.ok
    /\ ~PropertyThrows(body.json.value)
    /\ Get(body.json.value, "test") = JBool(TRUE)

\* lines 52-68: what JSON.parse and bodyData.test throw; line 66 catches both
ProbeExceptions(body) ==
    IF ~BodyTruthy(body) THEN <<>>
    ELSE IF ~body.json.ok
    THEN <<Exception("JSON.parse", "Unexpected token in JSON at position 0")>>
    ELSE IF PropertyThrows(body.json.value)
    THEN <<Exception("bodyData.test", "Cannot read properties of null (reading 'test')")>>
    ELSE <<>>

\* Buffer.from(event.body, 'base64') throws a TypeError on null
\* (variant: a missing body decodes to no bytes)
BufferFromNeverThrows(body) == FALSE
BufferFromThrows(body) == ~body.present

BufferFromMessage ==
    "The first argument must be of type string or an instance of Buffer, ArrayBuffer, or Array or an Array-like Object. Received null"

Returns(resp, exceptions) ==
    [kind |-> "return", response |-> resp, raised |-> exceptions, len |-> 0]

Fetches(len, exceptions) ==
    [kind |-> "fetch", response |-> NoResponse, raised |-> exceptions, len |-> len]

\* lines 17-121, with the catch of line 188 around lines 35-121
Prefix(ev, en, now) ==
    LET key == OPENAI_API_KEY(en)
        contentType == ContentType(ev)
        len == ByteLength(ev.body.b64)
    IN  IF ev.httpMethod = "OPTIONS" THEN Returns(Preflight, <<>>)
        ELSE IF ev.httpMethod # "POST" THEN Returns(MethodNotAllowed, <<>>)
        ELSE IF ~TruthyString(key) THEN Returns(KeyNotConfigured, <<>>)
        ELSE IF IsProbe(ev.body) THEN Returns(Probe(key, now), <<>>)
        ELSE IF ~TruthyString(contentType) \/ ~IsMultipart(contentType)
        THEN Returns(BadContentType(contentType), ProbeExceptions(ev.body))
        ELSE IF BufferFromThrows(ev.body)
        THEN Returns(InternalError(BufferFromMessage, now),
                     ProbeExceptions(ev.body)
                         \o <<Exception("Buffer.from", BufferFromMessage)>>)
        ELSE IF TooLarge(len)
        THEN Returns(PayloadTooLarge(len), ProbeExceptions(ev.body))
        ELSE Fetches(len, ProbeExceptions(ev.body))

---------------------------------------------------------------------------
(* Lines 152-170 and translateToBengali *)

\* String(v) for the values a text can be
ToStr(v) ==
    CASE v.t = "string" -> v.s
      [] v.t = "number" /\ v.n \in 0..9 -> <<48 + v.n>>
      [] v.t = "boolean" /\ v.b -> <<116, 114, 117, 101>>
      [] OTHER -> <<>>

\* transcriptionResult.text || ''
TextOf(result) == OrElse(Get(result, "text"), JStr(<<>>))

\* bengaliText.trim is a function only when bengaliText is a string
TrimThrows(text) == text.t # "string"

\* line 159: !isBengali && bengaliText.trim(), for a string
NeedsTranslation(text) == ~IsBengali(ToStr(text)) /\ Trim(text.s) # <<>>

\* line 219-226: data[0][0][0] if every level is truthy, else null
\* (variant: data[0])
ExtractFirst(data) ==
    IF Truthy(data) /\ Truthy(Index0(data)) THEN Index0(data) ELSE JNull
Extract(data) ==
    IF /\ Truthy(data)
       /\ Truthy(Index0(data))
       /\ Truthy(Index0(Index0(data)))
       /\ Truthy(Index0(Index0(Index0(data))))
    THEN Index0(Index0(Index0(data)))
    ELSE JNull

\* lines 163-165: if (translatedText) bengaliText = translatedText
\* (variant: without the test of translatedText)
AdoptAlways(current, translatedText) == translatedText
Adopt(current, translatedText) ==
    IF Truthy(translatedText) THEN translatedText ELSE current

---------------------------------------------------------------------------
(* The state machine *)

Init ==
    /\ event \in Events
    /\ env \in Environments
    /\ pc = "start"
    /\ response = NoResponse
    /\ returned = 0
    /\ raised = <<>>
    /\ wire = <<>>
    /\ pending = {}
    /\ openaiResponse = [status |-> 0, ok |-> FALSE]
    /\ transcriptionResult = Undefined
    /\ originalText = Undefined
    /\ bengaliText = Undefined

\* the response of lines 90-97
IsPayloadTooLarge(resp) == resp.statusCode # 0 /\ "fileSize" \in DOMAIN resp.body

\* a return statement of the handler
Return(resp) ==
    /\ response' = resp
    /\ returned' = returned + 1
    /\ pc' = "done"

\* a throw that reaches the catch of line 188
Catch(site, message, now) ==
    /\ raised' = Append(raised, Exception(site, message))
    /\ Return(InternalError(message, now))

\* (variant of Invoke: the upload is sent before the size check)
InvokeSendsFirst ==
    /\ pc = "start"
    /\ \E now \in Clock :
        LET r == Prefix(event, env, now)
            sent == IsPayloadTooLarge(r.response)
        IN  /\ raised' = raised \o r.raised
            /\ IF r.kind = "return"
               THEN /\ Return(r.response)
                    /\ wire' = IF sent
                               THEN Append(wire, TranscriptionRequest(
                                        OPENAI_API_KEY(env).v, ByteLength(event.body.b64)))
                               ELSE wire
                    /\ UNCHANGED pending
               ELSE /\ pc' = "awaitTranscriptionFetch"
                    /\ wire' = Append(wire,
                           TranscriptionRequest(OPENAI_API_KEY(env).v, r.len))
                    /\ pending' = pending \cup {"transcription.fetch"}
                    /\ UNCHANGED <<response, returned>>
    /\ UNCHANGED <<event, env, openaiResponse, transcriptionResult,
                   originalText, bengaliText>>

\* the handler is called: lines 7-121, up to the first await
Invoke ==
    /\ pc = "start"
    /\ \E now \in Clock :
        LET r == Prefix(event, env, now)
        IN  /\ raised' = raised \o r.raised
            /\ IF r.kind = "return"
               THEN /\ Return(r.response)
                    /\ UNCHANGED <<wire, pending>>
               ELSE /\ pc' = "awaitTranscriptionFetch"
                    /\ wire' = Append(wire,
                           TranscriptionRequest(OPENAI_API_KEY(env).v, r.len))
                    /\ pending' = pending \cup {"transcription.fetch"}
                    /\ UNCHANGED <<response, returned>>
    /\ UNCHANGED <<event, env, openaiResponse, transcriptionResult,
                   originalText, bengaliText>>

\* line 114 settles: the fetch rejects, or resolves with a status
TranscriptionFetchSettles ==
    /\ pc = "awaitTranscriptionFetch"
    /\ \/ \E m \in FetchErrors, now \in Clock :
            /\ wire' = Append(wire, Rejected("transcription", m))
            /\ pending' = pending \ {"transcription.fetch"}
            /\ Catch("transcription.fetch", m, now)
            /\ UNCHANGED openaiResponse
       \/ \E s \in UpstreamStatuses :
            /\ wire' = Append(wire, Status("transcription", s))
            /\ openaiResponse' = [status |-> s, ok |-> Ok(s)]
            /\ pending' = (pending \ {"transcription.fetch"})
                   \cup {IF Ok(s) THEN "transcription.json" ELSE "transcription.text"}
            /\ pc' = IF Ok(s) THEN "awaitTranscriptionJson" ELSE "awaitTranscriptionText"
            /\ UNCHANGED <<response, returned, raised>>
    /\ UNCHANGED <<event, env, transcriptionResult, originalText, bengaliText>>

\* line 124 settles, then lines 125-145
TranscriptionTextSettles ==
    /\ pc = "awaitTranscriptionText"
    /\ pending' = pending \ {"transcription.text"}
    /\ \/ \E m \in BodyErrors, now \in Clock :
            /\ wire' = Append(wire, BodyFailed("transcription", m))
            /\ Catch("transcription.text", m, now)
       \/ \E errorText \in ErrorBodies :
            /\ wire' = Append(wire, BodyText("transcription", errorText))
            /\ Return(UpstreamError(openaiResponse.status, errorText))
            /\ UNCHANGED raised
    /\ UNCHANGED <<event, env, openaiResponse, transcriptionResult,
                   originalText, bengaliText>>

TextMessage == "Cannot read properties of null (reading 'text')"
TrimMessage == "bengaliText.trim is not a function"
EncodeMessage == "URI malformed"

\* lines 152-170, up to the await inside translateToBengali; a throw outside
\* translateToBengali reaches the catch of line 188, one inside it the catch
\* of line 228, which returns null
Interpret(v, now) ==
    IF PropertyThrows(v)
    THEN Returns(InternalError(TextMessage, now),
                 <<Exception("transcriptionResult.text", TextMessage)>>)
    ELSE LET text == TextOf(v)
         IN  IF ~IsBengali(ToStr(text)) /\ TrimThrows(text)
             THEN Returns(InternalError(TrimMessage, now),
                          <<Exception("bengaliText.trim", TrimMessage)>>)
             ELSE IF ~NeedsTranslation(text)
             THEN Returns(Success(text, text, v, now), <<>>)
             ELSE IF EncodeThrows(text.s)
             THEN Returns(Success(text, Adopt(text, JNull), v, now),
                          <<Exception("encodeURIComponent", EncodeMessage)>>)
             ELSE Fetches(0, <<>>)

\* line 148 settles, then lines 149-186 up to the await inside translateToBengali
TranscriptionJsonSettles ==
    /\ pc = "awaitTranscriptionJson"
    /\ \/ \E m \in JsonErrors, now \in Clock :
            /\ wire' = Append(wire, BodyFailed("transcription", m))
            /\ pending' = pending \ {"transcription.json"}
            /\ Catch("transcription.json", m, now)
            /\ UNCHANGED <<transcriptionResult, originalText, bengaliText>>
       \/ \E v \in TranscriptionResults, now \in Clock :
            LET r == Interpret(v, now)
            IN  /\ transcriptionResult' = v
                /\ originalText' = IF PropertyThrows(v) THEN originalText ELSE TextOf(v)
                /\ bengaliText' = IF PropertyThrows(v) THEN bengaliText ELSE TextOf(v)
                /\ raised' = raised \o r.raised
                /\ IF r.kind = "return"
                   THEN /\ wire' = Append(wire, BodyJson("transcription", v))
                        /\ pending' = pending \ {"transcription.json"}
                        /\ Return(r.response)
                   ELSE /\ wire' = Append(Append(wire, BodyJson("transcription", v)),
                               TranslationRequest(TextOf(v).s))
                        /\ pending' = (pending \ {"transcription.json"})
                               \cup {"translation.fetch"}
                        /\ pc' = "awaitTranslationFetch"
                        /\ UNCHANGED <<response, returned>>
    /\ UNCHANGED <<event, env, openaiResponse>>

\* the return of lines 173-186, after translateToBengali returned translatedText
Finish(translatedText, now) ==
    /\ bengaliText' = Adopt(bengaliText, translatedText)
    /\ Return(Success(originalText, Adopt(bengaliText, translatedText),
                      transcriptionResult, now))

\* (variant of TranslationFetchSettles: a rejected fetch is retried once)
TranslationFetchRetries ==
    /\ pc = "awaitTranslationFetch"
    /\ \/ \E m \in FetchErrors, now \in Clock :
            /\ raised' = Append(raised, Exception("translation.fetch", m))
            /\ IF Len(raised) = 0 \/ raised[Len(raised)].site # "translation.fetch"
               THEN /\ wire' = Append(Append(wire, Rejected("translation", m)),
                               TranslationRequest(originalText.s))
                    /\ UNCHANGED <<pending, pc, response, returned, bengaliText>>
               ELSE /\ wire' = Append(wire, Rejected("translation", m))
                    /\ pending' = pending \ {"translation.fetch"}
                    /\ Finish(JNull, now)
       \/ \E s \in TranslateStatuses, now \in Clock :
            /\ wire' = Append(wire, Status("translation", s))
            /\ IF ~Ok(s)
               THEN /\ raised' = Append(raised, Exception("translation.status",
                           "Translation API error: " \o ToString(s)))
                    /\ pending' = pending \ {"translation.fetch"}
                    /\ Finish(JNull, now)
               ELSE /\ pending' = (pending \ {"translation.fetch"})
                           \cup {"translation.json"}
                    /\ pc' = "awaitTranslationJson"
                    /\ UNCHANGED <<response, returned, raised, bengaliText>>
    /\ UNCHANGED <<event, env, openaiResponse, transcriptionResult, originalText>>

\* line 209 settles, then lines 213-217, or the catch of line 228
TranslationFetchSettles ==
    /\ pc = "awaitTranslationFetch"
    /\ \/ \E m \in FetchErrors, now \in Clock :
            /\ wire' = Append(wire, Rejected("translation", m))
            /\ raised' = Append(raised, Exception("translation.fetch", m))
            /\ pending' = pending \ {"translation.fetch"}
            /\ Finish(JNull, now)
       \/ \E s \in TranslateStatuses, now \in Clock :
            /\ wire' = Append(wire, Status("translation", s))
            /\ IF ~Ok(s)
               THEN /\ raised' = Append(raised, Exception("translation.status",
                           "Translation API error: " \o ToString(s)))
                    /\ pending' = pending \ {"translation.fetch"}
                    /\ Finish(JNull, now)
               ELSE /\ pending' = (pending \ {"translation.fetch"})
                           \cup {"translation.json"}
                    /\ pc' = "awaitTranslationJson"
                    /\ UNCHANGED <<response, returned, raised, bengaliText>>
    /\ UNCHANGED <<event, env, openaiResponse, transcriptionResult, originalText>>

\* line 217 settles, then lines 219-226, or the catch of line 228
TranslationJsonSettles ==
    /\ pc = "awaitTranslationJson"
    /\ pending' = pending \ {"translation.json"}
    /\ \/ \E m \in JsonErrors, now \in Clock :
            /\ wire' = Append(wire, BodyFailed("translation", m))
            /\ raised' = Append(raised, Exception("translation.json", m))
            /\ Finish(JNull, now)
       \/ \E data \in TranslateData(originalText.s), now \in Clock :
            /\ wire' = Append(wire, BodyJson("translation", data))
            /\ Finish(Extract(data), now)
            /\ UNCHANGED raised
    /\ UNCHANGED <<event, env, openaiResponse, transcriptionResult, originalText>>

Next ==
    \/ Invoke
    \/ TranscriptionFetchSettles
    \/ TranscriptionTextSettles
    \/ TranscriptionJsonSettles
    \/ TranslationFetchSettles
    \/ TranslationJsonSettles

Spec == Init /\ [][Next]_vars

\* every promise the handler awaits settles: the services answer or fail
FairSpec == Spec /\ WF_vars(Next)

---------------------------------------------------------------------------
(* Vocabulary of the properties *)

Done == pc = "done"

RequestsTo(svc) == {i \in DOMAIN wire : wire[i].svc = svc /\ wire[i].ev = "request"}

Contacted(svc) == RequestsTo(svc) # {}

\* the events of a kind a service produced
WireEvents(svc, ev) == {i \in DOMAIN wire : wire[i].svc = svc /\ wire[i].ev = ev}

Has(field) == field \in DOMAIN response.body

\* the request, read without the handler's operators
HasCredential == "OPENAI_API_KEY" \in DOMAIN env /\ env["OPENAI_API_KEY"] # ""

ProbeBody ==
    /\ event.body.present
    /\ ~event.body.empty
    /\ event.body.json.ok
    /\ event.body.json.value.t = "object"
    /\ "test" \in DOMAIN event.body.json.value.f
    /\ event.body.json.value.f["test"] = JBool(TRUE)

ReceivedType ==
    IF "content-type" \in DOMAIN event.headers /\ event.headers["content-type"] # ""
    THEN event.headers["content-type"]
    ELSE IF "Content-Type" \in DOMAIN event.headers /\ event.headers["Content-Type"] # ""
    THEN event.headers["Content-Type"]
    ELSE "none"

DeclaresMultipart == Includes(ReceivedType, "multipart/form-data")

DecodedLength == ByteLength(event.body.b64)

\* a POST that passed the method, credential, probe and content-type checks
PassedEarlierChecks ==
    event.httpMethod = "POST" /\ HasCredential /\ ~ProbeBody /\ DeclaresMultipart

---------------------------------------------------------------------------
(* C1 *)

\* the places whose exceptions a more specific catch handles: line 66 for the
\* probe's parse, line 228 for everything inside translateToBengali
HandledSites ==
    { "JSON.parse", "bodyData.test", "encodeURIComponent",
      "translation.fetch", "translation.status", "translation.json" }

IsInternalError(message) ==
    /\ response.statusCode = 500
    /\ DOMAIN response.body = {"error", "message", "timestamp"}
    /\ response.body.error = "Internal server error during transcription"
    /\ response.body.message = message
    /\ response.body.timestamp \in Clock

C1_Safe ==
    /\ returned <= 1
    /\ Done <=> returned = 1
    /\ Done <=> response # NoResponse
    /\ \A i \in DOMAIN raised :
            raised[i].site \notin HandledSites
                => Done /\ IsInternalError(raised[i].message)
    /\ ( /\ Done
         /\ event.httpMethod = "POST" /\ HasCredential /\ DeclaresMultipart
         /\ ~event.body.present )
            => /\ IsInternalError(BufferFromMessage)
               /\ \E i \in DOMAIN raised : raised[i].site = "Buffer.from"

\* C1: whatever the request and whatever the two services do, one invocation
\* ends with exactly one response; an exception no more specific catch handles
\* gives the 500 response with exactly error, message (the exception's) and
\* timestamp, also for a multipart POST with no body to decode.
C1_OneResponseAlways == [](C1_Safe) /\ <>[](Done /\ returned = 1)

C1_Witness ==
    /\ Done
    /\ event.httpMethod = "POST" /\ HasCredential /\ DeclaresMultipart
    /\ ~event.body.present
    /\ response.statusCode = 500
    /\ \E i \in DOMAIN raised : raised[i].site = "Buffer.from"

---------------------------------------------------------------------------
(* C2 *)

\* C2: the early checks apply in the order method, credential, probe, content
\* type, decoded size, and the first that applies decides the response.
C2_EarlyChecksInOrder ==
    Done =>
        /\ event.httpMethod = "OPTIONS"
              => response.statusCode = 200 /\ response.body = EmptyBody
        /\ event.httpMethod \notin {"OPTIONS", "POST"}
              => response.statusCode = 405 /\ DOMAIN response.body = {"error"}
        /\ event.httpMethod = "POST" /\ ~HasCredential
              => response.statusCode = 500 /\ Has("setup")
        /\ event.httpMethod = "POST" /\ HasCredential /\ ProbeBody
              => /\ response.statusCode = 200
                 /\ DOMAIN response.body
                        = {"success", "message", "timestamp", "apiKeyPresent"}
                 /\ response.body.success /\ response.body.apiKeyPresent
        /\ event.httpMethod = "POST" /\ HasCredential /\ ~ProbeBody /\ ~DeclaresMultipart
              => /\ response.statusCode = 400
                 /\ Has("received") /\ response.body.received = ReceivedType
        /\ PassedEarlierChecks /\ event.body.present /\ DecodedLength > 25 * 1024 * 1024
              => response.statusCode = 400 /\ Has("fileSize")

C2_Witness ==
    /\ Done
    /\ event.httpMethod = "POST" /\ ~HasCredential /\ ProbeBody
    /\ response.statusCode = 500 /\ Has("setup")

---------------------------------------------------------------------------
(* C3 *)

\* the responses of the early exits, told by their bodies
IsEarlyResponse ==
    \/ response = Preflight
    \/ response = MethodNotAllowed
    \/ response.statusCode = 500 /\ Has("setup")
    \/ response.statusCode = 200 /\ Has("apiKeyPresent")
    \/ response.statusCode = 400 /\ Has("received")
    \/ response.statusCode = 400 /\ Has("fileSize")

\* C3: an invocation that ends with the pre-flight, 405, missing-credential,
\* probe, bad-content-type or payload-too-large response contacted neither
\* service.
C3_FailFast ==
    (Done /\ IsEarlyResponse)
        => ~Contacted("transcription") /\ ~Contacted("translation") /\ wire = <<>>

C3_Witness ==
    /\ Done
    /\ DecodedLength = 26 * MiB
    /\ response.statusCode = 400 /\ Has("fileSize")
    /\ wire = <<>>

---------------------------------------------------------------------------
(* C4 *)

\* the text of a parsed transcription body, when it is a string
IsTextResult(v) ==
    v.t = "object" /\ "text" \in DOMAIN v.f /\ v.f["text"].t = "string"

HasBengaliChar(s) == \E k \in 1..Len(s) : s[k] \in 2432..2559

IsBlank(s) == \A k \in 1..Len(s) : IsWhiteSpace(s[k])

\* the transcription call succeeded before position i of the wire, with text s
TranscribedBefore(i, s) ==
    \E j \in 1..(i - 1), h \in 1..(i - 1) :
        /\ h < j
        /\ wire[h].svc = "transcription" /\ wire[h].ev = "status"
        /\ 200 <= wire[h].status /\ wire[h].status <= 299
        /\ wire[j].svc = "transcription" /\ wire[j].ev = "json"
        /\ IsTextResult(wire[j].value)
        /\ wire[j].value.f["text"].s = s

\* C4: the translation service is contacted only after a successful
\* transcription whose text has no character in U+0980-U+09FF and is not blank;
\* a text with at least one such character is never translated and comes back
\* with bengali equal to original.
C4_TranslationOnlyForForeignText ==
    /\ \A i \in RequestsTo("translation") :
            /\ TranscribedBefore(i, wire[i].q)
            /\ ~HasBengaliChar(wire[i].q)
            /\ ~IsBlank(wire[i].q)
    /\ \A j \in WireEvents("transcription", "json") :
            (IsTextResult(wire[j].value) /\ HasBengaliChar(wire[j].value.f["text"].s))
                => /\ ~Contacted("translation")
                   /\ Done => /\ response.statusCode = 200
                              /\ Has("bengali") /\ Has("original")
                              /\ response.body.bengali = response.body.original

C4_Witness ==
    /\ Done
    /\ \E j \in WireEvents("transcription", "json") :
            /\ IsTextResult(wire[j].value)
            /\ wire[j].value.f["text"].s = <<72, 2432>>
    /\ ~Contacted("translation")
    /\ response.body.bengali = response.body.original

---------------------------------------------------------------------------
(* C5 *)

\* data[0][0][0], undefined when a level is missing
FirstSegment(data) == Index0(Index0(Index0(data)))

MissingOrEmpty(data) ==
    \/ FirstSegment(data).t \in {"undefined", "null"}
    \/ FirstSegment(data) = JStr(<<>>)

\* the transcription succeeded and the translation did not deliver a segment
TranslationFailed ==
    /\ WireEvents("transcription", "json") # {}
    /\ \/ \E i \in DOMAIN raised :
              raised[i].site \in {"encodeURIComponent", "translation.fetch",
                                  "translation.status", "translation.json"}
       \/ WireEvents("translation", "rejected") # {}
       \/ WireEvents("translation", "failed") # {}
       \/ \E i \in WireEvents("translation", "status") : ~Ok(wire[i].status)
       \/ \E i \in WireEvents("translation", "json") : MissingOrEmpty(wire[i].value)

IsFallback ==
    /\ response.statusCode = 200
    /\ Has("success") /\ response.body.success
    /\ Has("bengali") /\ Has("original")
    /\ response.body.bengali = response.body.original
    /\ ~Has("error")

\* C5: when the transcription succeeded and the translation call throws,
\* answers with a non-success status, an unparsable body or a body whose
\* [0][0][0] is missing or empty, the response is still 200 with success true,
\* bengali equal to original and no error field.
C5_TranslationFailureAbsorbed == (Done /\ TranslationFailed) => IsFallback

C5_Witness ==
    /\ Done
    /\ \E i \in WireEvents("translation", "status") : wire[i].status = 500
    /\ IsFallback
    /\ response.body.original = JStr(<<72>>)

---------------------------------------------------------------------------
(* C6 *)

\* data is a nested array whose [0][0][0] is a non-empty string
DeliversSegment(data) ==
    /\ data.t = "array" /\ Len(data.a) >= 1
    /\ data.a[1].t = "array" /\ Len(data.a[1].a) >= 1
    /\ data.a[1].a[1].t = "array" /\ Len(data.a[1].a[1].a) >= 1
    /\ data.a[1].a[1].a[1].t = "string"
    /\ data.a[1].a[1].a[1].s # <<>>

\* the text the transcription service returned, the empty string when none
ReturnedText(v) == IF IsTextResult(v) THEN v.f["text"] ELSE JStr(<<>>)

\* C6: a transcribed text that is not blank and has no Bengali-range character,
\* translated into a nested array whose [0][0][0] is a non-empty string T, gives
\* 200 with original the transcribed text and bengali T; in every success
\* response original is the text the transcription service returned, or the
\* empty string when it returned none.
C6_TranslatedSegmentReturned ==
    Done =>
        /\ \A j \in WireEvents("transcription", "json"),
              i \in WireEvents("translation", "json") :
                ( /\ IsTextResult(wire[j].value)
                  /\ ~IsBlank(wire[j].value.f["text"].s)
                  /\ ~HasBengaliChar(wire[j].value.f["text"].s)
                  /\ DeliversSegment(wire[i].value) )
                    => /\ response.statusCode = 200
                       /\ Has("original") /\ Has("bengali")
                       /\ response.body.original = wire[j].value.f["text"]
                       /\ response.body.bengali = wire[i].value.a[1].a[1].a[1]
        /\ (response.statusCode = 200 /\ Has("original"))
                => \E j \in WireEvents("transcription", "json") :
                        response.body.original = ReturnedText(wire[j].value)

C6_Witness ==
    /\ Done
    /\ response.statusCode = 200
    /\ Has("original") /\ response.body.original = JStr(<<72>>)
    /\ response.body.bengali = JStr(<<2453>>)
    /\ Contacted("translation")

---------------------------------------------------------------------------
(* C7 *)

\* the message for an upstream status, as the claim lists it
ClaimedMessage(status) ==
    IF status = 401 THEN "Invalid OpenAI API key. Please check your key."
    ELSE IF status = 429 THEN "OpenAI API rate limit exceeded. Please try again later."
    ELSE IF status = 413 THEN "Audio file too large for OpenAI API."
    ELSE "OpenAI API request failed"

---------------------------------------------------------------------------
(* C8 *)

\* C8: every response has a status code in the 2xx, 4xx or 5xx class, also
\* when it propagates a non-success status of the transcription service.
C8_StatusClass ==
    Done => \/ response.statusCode \in 200..299
            \/ response.statusCode \in 400..599

---------------------------------------------------------------------------
(* C9 *)

ServiceOf(p) ==
    IF p \in {"transcription.fetch", "transcription.text", "transcription.json"}
    THEN "transcription"
    ELSE "translation"

\* C9: each service is called at most once, the translation call is issued
\* only after the transcription call completed successfully, the two calls are
\* never in flight together, and none is outstanding when the handler returns.
C9_SequentialSingleCalls ==
    /\ Cardinality(RequestsTo("transcription")) <= 1
    /\ Cardinality(RequestsTo("translation")) <= 1
    /\ \A i \in RequestsTo("translation") :
            /\ \E j \in 1..(i - 1) :
                    wire[j].svc = "transcription" /\ wire[j].ev = "json"
            /\ \E h \in 1..(i - 1) :
                    wire[h].svc = "transcription" /\ wire[h].ev = "status"
                        /\ Ok(wire[h].status)
            /\ \A k \in (i + 1)..Len(wire) : wire[k].svc = "translation"
    /\ Cardinality({ServiceOf(p) : p \in pending}) <= 1
    /\ Cardinality(pending) <= 1
    /\ Done => pending = {}

C9_Witness ==
    /\ Done
    /\ Cardinality(RequestsTo("transcription")) = 1
    /\ Cardinality(RequestsTo("translation")) = 1
    /\ pending = {}
    /\ WireEvents("translation", "rejected") # {}

---------------------------------------------------------------------------
(* C10 *)

IsTooLargeResponse ==
    /\ response.statusCode = 400
    /\ DOMAIN response.body = {"error", "fileSize"}
    /\ response.body.error = "Audio file too large. Maximum size is 25MB."

\* n is len / (1024 * 1024) rounded to the nearest integer
NearestMiB(len, n) ==
    /\ 2 * n * 1024 * 1024 - 1024 * 1024 <= 2 * len
    /\ 2 * len <= 2 * n * 1024 * 1024 + 1024 * 1024

\* C10: for a POST that passed the earlier checks, the payload-too-large
\* response is returned exactly when the decoded length is strictly greater
\* than 25 * 1024 * 1024; a body of exactly 25 MiB is forwarded; fileSize is the
\* length in MiB rounded to the nearest integer followed by "MB": "25MB" for
\* 25 MiB + 1 byte, "26MB" for 26 MiB.
C10_SizeCeiling ==
    (PassedEarlierChecks /\ event.body.present /\ pc # "start") =>
        /\ DecodedLength > 25 * 1024 * 1024 <=> (Done /\ IsTooLargeResponse)
        /\ DecodedLength <= 25 * 1024 * 1024
              => /\ wire # <<>>
                 /\ wire[1].svc = "transcription" /\ wire[1].ev = "request"
                 /\ wire[1].bytes = DecodedLength
        /\ DecodedLength > 25 * 1024 * 1024
              => \E n \in 0..64 :
                    /\ NearestMiB(DecodedLength, n)
                    /\ response.body.fileSize = ToString(n) \o "MB"
        /\ DecodedLength = 25 * 1024 * 1024 + 1 => response.body.fileSize = "25MB"
        /\ DecodedLength = 26 * 1024 * 1024 => response.body.fileSize = "26MB"

C10_Witness ==
    /\ Done
    /\ PassedEarlierChecks
    /\ DecodedLength = 25 * 1024 * 1024 + 1
    /\ IsTooLargeResponse
    /\ response.body.fileSize = "25MB"

=============================================================================
